---- MODULE Spec2Model ----
(***************************************************************************)
(* A model of game/game.py: the Grid container with its EDGE border and    *)
(* the Game that slams it (squash, combine, squash, spawn, recompute max). *)
(* A Python exception is an outcome string ("ValueError", "IndexError")    *)
(* carried by the computation record; "ok" is a normal return.             *)
(***************************************************************************)
EXTENDS Integers, Sequences, FiniteSets, TLC

\* Bounds of the model: grids of at most MaxCells cells (every width x height
\* with width * height <= MaxCells), spawn values 1..MaxSpawn (SpecInt adds
\* 0 and -1), and two goals: LowGoal, which a spawned tile or the first merge
\* meets, and 8 * LowGoal, which takes several merges.
MaxCells == 4
MaxSpawn == 2
LowGoal == 2

EDGE == -1
EMPTY == 0

UP == <<-1, 0>>
DOWN == <<1, 0>>
LEFT == <<0, -1>>
RIGHT == <<0, 1>>
DIRECTIONS == <<UP, RIGHT, DOWN, LEFT>>

\* Vectors a caller may pass that are none of the four directions.
BadVectors == {<<1, 1>>, <<0, 0>>}
Vectors == {UP, RIGHT, DOWN, LEFT} \cup BadVectors

\* The direction lists any_can_move is called with: the default, and one
\* vector that is no direction.
DirectionLists == {DIRECTIONS} \cup {<<v>> : v \in BadVectors}

VARIABLES
    width,          \* Grid.width
    height,         \* Grid.height
    _grid,          \* Grid._grid, the backing (height+2) x (width+2) array
    initial_value,  \* Game.initial_value, the spawn value
    goal,           \* Game.goal
    _max,           \* Game._max, the best value
    started,        \* start() has been called
    slammed,        \* some slam() has completed
    last            \* the last call: its arguments, its outcome, the state before it

vars == <<width, height, _grid, initial_value, goal, _max, started, slammed, last>>

\* x in s, for a Python list s
In(x, s) == \E k \in 1..Len(s) : s[k] = x

(***************************************************************************)
(* Grid                                                                    *)
(***************************************************************************)

_makegridEdgeless(w, h, v) ==
    [j \in 0..(h + 1) |-> [i \in 0..(w + 1) |-> v]]

_makegrid(w, h, v) ==
    [j \in 0..(h + 1) |->
        [i \in 0..(w + 1) |->
            IF j \in 1..h /\ i \in 1..w THEN v ELSE EDGE]]

_to_grid_indices(j, i) == <<j + 1, i + 1>>

_to_view_indices(j, i) == <<j - 1, i - 1>>

_apply_dir(j, i, dir_) == <<j + dir_[1], i + dir_[2]>>

_on_grid(j, i) == (0 < i /\ i <= width) /\ (0 < j /\ j <= height)

\* "ok" or the exception Grid._range_check raises
_range_check(j, i) ==
    LET gi == _to_grid_indices(j, i)
    IN  IF _on_grid(gi[1], gi[2]) THEN "ok" ELSE "IndexError"

\* Grid.get and Grid.set past their range check
get(g, j, i) ==
    LET gi == _to_grid_indices(j, i) IN g[gi[1]][gi[2]]

set(g, j, i, it) ==
    LET gi == _to_grid_indices(j, i) IN [g EXCEPT ![gi[1]][gi[2]] = it]

\* backing indices of the public cells, row-major
_cell_indices ==
    [k \in 1..(width * height) |->
        <<((k - 1) \div width) + 1, ((k - 1) % width) + 1>>]

cell_valuesShort(g) ==
    [k \in 1..width |-> g[_cell_indices[k][1]][_cell_indices[k][2]]]

cell_values(g) ==
    [k \in 1..(width * height) |-> g[_cell_indices[k][1]][_cell_indices[k][2]]]

available_cellsAll(g) ==
    [k \in 1..(width * height) |->
        _to_view_indices(_cell_indices[k][1], _cell_indices[k][2])]

available_cells(g) ==
    LET free(c) == g[c[1]][c[2]] = EMPTY
        s == SelectSeq(_cell_indices, free)
    IN  [k \in 1..Len(s) |-> _to_view_indices(s[k][1], s[k][2])]

occupied_cells(g) ==
    LET used(c) == g[c[1]][c[2]] # EMPTY /\ g[c[1]][c[2]] # EDGE
        s == SelectSeq(_cell_indices, used)
    IN  [k \in 1..Len(s) |-> _to_view_indices(s[k][1], s[k][2])]

neighbors(j, i, directions) ==
    LET gi == _to_grid_indices(j, i)
        n(k) == _apply_dir(gi[1], gi[2], directions[k])
        on(k) == _on_grid(n(k)[1], n(k)[2])
        ks == SelectSeq([k \in 1..Len(directions) |-> k], on)
    IN  [k \in 1..Len(ks) |-> _to_view_indices(n(ks[k])[1], n(ks[k])[2])]

\* Python's max over a non-empty sequence
max(s) == CHOOSE x \in {s[k] : k \in 1..Len(s)} : \A k \in 1..Len(s) : s[k] <= x

(***************************************************************************)
(* Game                                                                    *)
(***************************************************************************)

_validate_directionWrongError(direction) ==
    IF In(direction, DIRECTIONS) THEN "ok" ELSE "IndexError"

_validate_direction(direction) ==
    IF In(direction, DIRECTIONS) THEN "ok" ELSE "ValueError"

\* start, max_, delta and whether get_/set_ transpose their arguments
_get_params_for_direction(direction) ==
    LET horizontal == direction \in {LEFT, RIGHT}
        vertical == direction \in {UP, DOWN}
        m == IF horizontal THEN width ELSE height
    IN  IF ~(horizontal \/ vertical) THEN
            [err |-> "ValueError", start |-> 0, max_ |-> 0, delta |-> 0,
             transposed |-> FALSE]
        ELSE IF direction \in {LEFT, UP} THEN
            [err |-> "ok", start |-> 0, max_ |-> m, delta |-> 1,
             transposed |-> vertical]
        ELSE
            [err |-> "ok", start |-> m - 1, max_ |-> m, delta |-> -1,
             transposed |-> vertical]

\* the (j, i) that get_(row, k) and set_(row, k, it) hand to Grid.get / Grid.set
view(p, row, k) == IF p.transposed THEN <<k, row>> ELSE <<row, k>>

raise(c, e) == [c EXCEPT !.err = e]

RECURSIVE squash_row(_, _, _, _, _)
squash_row(c, p, row, curr, last_empty) ==
    IF ~(0 <= curr /\ curr < p.max_ /\ 0 <= last_empty /\ last_empty < p.max_)
    THEN c
    ELSE
        LET le == view(p, row, last_empty)
            cu == view(p, row, curr)
        IN  IF _range_check(le[1], le[2]) # "ok" THEN raise(c, "IndexError")
            ELSE IF get(c.g, le[1], le[2]) = EMPTY THEN
                IF _range_check(cu[1], cu[2]) # "ok" THEN raise(c, "IndexError")
                ELSE IF get(c.g, cu[1], cu[2]) > 0 THEN
                    LET g1 == set(c.g, le[1], le[2], get(c.g, cu[1], cu[2]))
                        g2 == set(g1, cu[1], cu[2], EMPTY)
                    IN  squash_row([c EXCEPT !.g = g2], p, row,
                                   curr + p.delta, last_empty + p.delta)
                ELSE squash_row(c, p, row, curr + p.delta, last_empty)
            ELSE squash_row(c, p, row, curr + p.delta, last_empty + p.delta)

RECURSIVE squash_rows(_, _, _)
squash_rows(c, p, row) ==
    IF row >= p.max_ \/ c.err # "ok" THEN c
    ELSE squash_rows(squash_row(c, p, row, p.start, p.start), p, row + 1)

_squash(c, p) == IF c.err # "ok" THEN c ELSE squash_rows(c, p, 0)

bounds(p, x) == IF p.start = 0 THEN x < p.max_ - 1 ELSE x > 0

RECURSIVE combine_row(_, _, _, _)
combine_row(c, p, row, curr) ==
    IF ~bounds(p, curr) THEN c
    ELSE
        LET cu == view(p, row, curr)
            nx == view(p, row, curr + p.delta)
        IN  IF _range_check(cu[1], cu[2]) # "ok" \/ _range_check(nx[1], nx[2]) # "ok"
            THEN raise(c, "IndexError")
            ELSE
                LET curr_val == get(c.g, cu[1], cu[2])
                    next_val == get(c.g, nx[1], nx[2])
                IN  IF curr_val # EMPTY /\ curr_val = next_val THEN
                        LET g1 == set(c.g, cu[1], cu[2], curr_val * 2)
                            g2 == set(g1, nx[1], nx[2], EMPTY)
                        IN  combine_row([c EXCEPT !.g = g2, !.merges = @ + 1],
                                        p, row, curr + p.delta * 2)
                    ELSE combine_row(c, p, row, curr + p.delta)

RECURSIVE combine_rows(_, _, _)
combine_rows(c, p, row) ==
    IF row >= p.max_ \/ c.err # "ok" THEN c
    ELSE combine_rows(combine_row(c, p, row, p.start), p, row + 1)

_combine(c, p) == IF c.err # "ok" THEN c ELSE combine_rows(c, p, 0)

\* Game.slam up to (not including) _place_random: the grid it leaves, the
\* exception it raised if any, and the number of merges
move(g, direction) ==
    LET c0 == [g |-> g, err |-> _validate_direction(direction), merges |-> 0]
        p == _get_params_for_direction(direction)
    IN  IF c0.err # "ok" THEN c0
        ELSE IF p.err # "ok" THEN raise(c0, p.err)
        ELSE _squash(_combine(_squash(c0, p), p), p)

\* the grids Game._place_random may leave (one per choice of random.choice)
_place_random(g) ==
    LET av == available_cells(g)
    IN  IF av = <<>> THEN {g}
        ELSE {set(g, av[k][1], av[k][2], initial_value) : k \in 1..Len(av)}

_position_can_move(g, j, i, directions) ==
    LET ns == neighbors(j, i, directions)
    IN  \E k \in 1..Len(ns) :
            \/ get(g, ns[k][1], ns[k][2]) = EMPTY
            \/ get(g, ns[k][1], ns[k][2]) = get(g, j, i)

any_can_move(g, directions) ==
    \E i \in 0..(width - 1) : \E j \in 0..(height - 1) :
        get(g, j, i) = EMPTY \/ _position_can_move(g, j, i, directions)

goal_metExact(m) == m = goal

goal_met(m) == m >= goal

is_over(g, m) == goal_met(m) \/ ~any_can_move(g, DIRECTIONS)

(***************************************************************************)
(* The calls a driver makes                                                *)
(***************************************************************************)

Call(op, direction, outcome, ret, moved, merges) ==
    [op |-> op, direction |-> direction, outcome |-> outcome, ret |-> ret,
     pre_grid |-> _grid, pre_max |-> _max, moved |-> moved, merges |-> merges]

Dims == {d \in (1..MaxCells) \X (1..MaxCells) : d[1] * d[2] <= MaxCells}

\* Game.__init__
InitWith(spawns) ==
    /\ \E d \in Dims :
        /\ width = d[1]
        /\ height = d[2]
        /\ _grid = _makegrid(d[1], d[2], EMPTY)
        /\ last = [op |-> "init", direction |-> <<0, 0>>, outcome |-> "ok",
                   ret |-> FALSE, pre_grid |-> _makegrid(d[1], d[2], EMPTY),
                   pre_max |-> 0, moved |-> _makegrid(d[1], d[2], EMPTY),
                   merges |-> 0]
    /\ initial_value \in spawns
    /\ goal \in {LowGoal, 8 * LowGoal}
    /\ _max = 0
    /\ started = FALSE
    /\ slammed = FALSE

Init == InitWith(1..MaxSpawn)

InitInt == InitWith((-1)..MaxSpawn)

Start ==
    /\ ~started
    /\ \E g1 \in _place_random(_grid) : \E g2 \in _place_random(g1) : _grid' = g2
    /\ started' = TRUE
    /\ last' = Call("start", <<0, 0>>, "ok", FALSE, _grid, 0)
    /\ UNCHANGED <<width, height, initial_value, goal, _max, slammed>>

Slam(direction) ==
    /\ started
    /\ LET m == move(_grid, direction)
       IN  IF m.err # "ok" THEN
               /\ _grid' = m.g
               /\ last' = Call("slam", direction, m.err, FALSE, m.g, m.merges)
               /\ UNCHANGED <<_max, slammed>>
           ELSE
               /\ _grid' \in _place_random(m.g)
               /\ _max' = max(cell_values(_grid'))
               /\ slammed' = TRUE
               /\ last' = Call("slam", direction, "ok", FALSE, m.g, m.merges)
    /\ UNCHANGED <<width, height, initial_value, goal, started>>

IsOver ==
    /\ last' = Call("is_over", <<0, 0>>, "ok", is_over(_grid, _max), _grid, 0)
    /\ UNCHANGED <<width, height, _grid, initial_value, goal, _max, started, slammed>>

GoalMet ==
    /\ last' = Call("goal_met", <<0, 0>>, "ok", goal_met(_max), _grid, 0)
    /\ UNCHANGED <<width, height, _grid, initial_value, goal, _max, started, slammed>>

\* any_can_move(directions); last.direction is the first vector of the list
AnyCanMove(directions) ==
    /\ last' = Call("any_can_move", directions[1], "ok",
                    any_can_move(_grid, directions), _grid, 0)
    /\ UNCHANGED <<width, height, _grid, initial_value, goal, _max, started, slammed>>

Next ==
    \/ Start
    \/ \E direction \in Vectors : Slam(direction)
    \/ IsOver
    \/ GoalMet
    \/ \E directions \in DirectionLists : AnyCanMove(directions)

Spec == Init /\ [][Next]_vars

SpecInt == InitInt /\ [][Next]_vars

(***************************************************************************)
(* Properties.  Each is stated over the public cells read straight from    *)
(* the backing array, not through the operators it is a property of.       *)
(***************************************************************************)

PublicCells == (1..height) \X (1..width)

BorderCells == ((0..(height + 1)) \X (0..(width + 1))) \ PublicCells

MaxCell(g) ==
    CHOOSE v \in {g[c[1]][c[2]] : c \in PublicCells} :
        \A c \in PublicCells : g[c[1]][c[2]] <= v

Total(g) ==
    LET RECURSIVE sumOver(_)
        sumOver(S) ==
            IF S = {} THEN 0
            ELSE LET c == CHOOSE x \in S : TRUE
                 IN  g[c[1]][c[2]] + sumOver(S \ {c})
    IN  sumOver(PublicCells)

Tiles(g) == {c \in PublicCells : g[c[1]][c[2]] # EMPTY}

Holding(g, v) == {c \in PublicCells : g[c[1]][c[2]] = v}

ValidSlam == last.op = "slam" /\ In(last.direction, DIRECTIONS)

\* The reference result of a move on one line, read from its slam edge.
Pack(line) ==
    LET tile(x) == x # EMPTY
        t == SelectSeq(line, tile)
    IN  t \o [k \in 1..(Len(line) - Len(t)) |-> EMPTY]

RECURSIVE MergeOnce(_)
MergeOnce(s) ==
    IF Len(s) < 2 THEN s
    ELSE IF s[1] # EMPTY /\ s[1] = s[2]
         THEN <<2 * s[1], EMPTY>> \o MergeOnce(SubSeq(s, 3, Len(s)))
         ELSE <<s[1]>> \o MergeOnce(Tail(s))

RefLine(line) == Pack(MergeOnce(Pack(line)))

Reverse(s) == [k \in 1..Len(s) |-> s[Len(s) + 1 - k]]

RefMove(g, d) ==
    [j \in 0..(height + 1) |->
        [i \in 0..(width + 1) |->
            IF <<j, i>> \notin PublicCells THEN g[j][i]
            ELSE LET row == [k \in 1..width |-> g[j][k]]
                     col == [k \in 1..height |-> g[k][i]]
                 IN  CASE d = LEFT -> RefLine(row)[i]
                       [] d = RIGHT -> Reverse(RefLine(Reverse(row)))[i]
                       [] d = UP -> RefLine(col)[j]
                       [] d = DOWN -> Reverse(RefLine(Reverse(col)))[j]]]

\* C1: for every grid, square or not, and each of the four directions, the
\* move part of slam (squash, combine, squash) completes and leaves every
\* line along the slam axis as the reference result: packed toward the slam
\* edge, equal neighbours merged once from that edge, packed again.
C1_MoveIsReference ==
    ValidSlam =>
        /\ last.outcome = "ok"
        /\ last.moved = RefMove(last.pre_grid, last.direction)

\* The same on square grids only, where the row count and the line length
\* coincide.
SquareMoveIsReference ==
    (ValidSlam /\ width = height) =>
        /\ last.outcome = "ok"
        /\ last.moved = RefMove(last.pre_grid, last.direction)

\* C2: no partial failure: a call that fails leaves the grid cells and the
\* best value exactly as they were before it.
C2_FailureIsAtomic ==
    last.outcome # "ok" => (_grid = last.pre_grid /\ _max = last.pre_max)

\* C3: the best value is 0 before the first completed slam, is never lowered
\* by a call, and after each completed slam equals the maximum over all
\* public cells, the spawned tile included.
C3_BestValue ==
    /\ ~slammed => _max = 0
    /\ _max >= last.pre_max
    /\ (last.op = "slam" /\ last.outcome = "ok") => _max = MaxCell(_grid)

C3_Witness ==
    /\ last.op = "slam"
    /\ last.outcome = "ok"
    /\ last.pre_max > 0
    /\ _max > last.pre_max
    /\ last.merges > 0

\* C4: Over is absorbing: if is_over() was true before a call it is true
\* after it, goal_met() once true stays true, and a slam of a board with no
\* legal move changes no cell and spawns nothing.
C4_OverIsAbsorbing ==
    /\ is_over(last.pre_grid, last.pre_max) => is_over(_grid, _max)
    /\ goal_met(last.pre_max) => goal_met(_max)
    /\ (last.op = "slam" /\ ~any_can_move(last.pre_grid, DIRECTIONS))
           => _grid = last.pre_grid

C4_Witness ==
    /\ ValidSlam
    /\ width = 2 /\ height = 2
    /\ ~goal_met(last.pre_max)
    /\ ~any_can_move(last.pre_grid, DIRECTIONS)
    /\ is_over(_grid, _max)

\* C5: after start(), goal_met() is true exactly when some public cell holds
\* a value that meets or exceeds the goal.
C5_GoalMetReadsGrid ==
    started => (goal_met(_max) <=> \E c \in PublicCells : _grid[c[1]][c[2]] >= goal)

\* C6: for every spawn value, every public cell is EMPTY or positive, every
\* border cell is EDGE, and no public cell holds (so get never returns) EDGE.
C6_CellsAndBorder ==
    /\ \A c \in PublicCells : _grid[c[1]][c[2]] = EMPTY \/ _grid[c[1]][c[2]] > 0
    /\ \A c \in BorderCells : _grid[c[1]][c[2]] = EDGE
    /\ \A j \in 0..(height - 1) : \A i \in 0..(width - 1) :
           _range_check(j, i) = "ok" /\ get(_grid, j, i) # EDGE

\* C6 amended: the same for every spawn value that is not negative.
C6_CellsAndBorderNonNegativeSpawn ==
    initial_value >= 0 => C6_CellsAndBorder

C6_Witness ==
    /\ initial_value > 0
    /\ ValidSlam
    /\ last.outcome = "ok"
    /\ last.merges > 0
    /\ Tiles(_grid) # {}

\* C7: after start() on a fresh game exactly two distinct public cells hold
\* the spawn value, every other public cell is EMPTY, and the best value is 0.
C7_StartPlacesTwo ==
    last.op = "start" =>
        /\ Cardinality(Holding(_grid, initial_value)) = 2
        /\ Tiles(_grid) = Holding(_grid, initial_value)
        /\ _max = 0

\* C7 amended: two cells on a grid of at least two cells, the only cell on
\* a 1 x 1 grid (the second placement finds no empty cell and does nothing).
C7_StartPlacesTwoOrFills ==
    last.op = "start" =>
        /\ Tiles(last.pre_grid) = {}
        /\ Cardinality(Holding(_grid, initial_value))
               = (IF width * height >= 2 THEN 2 ELSE 1)
        /\ Tiles(_grid) = Holding(_grid, initial_value)
        /\ _max = 0

C7_Witness ==
    /\ last.op = "start"
    /\ width * height > 2
    /\ Cardinality(Holding(_grid, initial_value)) = 2
    /\ Cardinality(Holding(_grid, EMPTY)) = width * height - 2

\* C8: slam(direction) and any_can_move(directions) given a vector that is
\* none of UP, DOWN, LEFT, RIGHT fail with ValueError, and leave the grid and
\* the best value unchanged.
C8_BadVectorRejected ==
    (last.op \in {"slam", "any_can_move"} /\ last.direction \in BadVectors) =>
        /\ last.outcome = "ValueError"
        /\ _grid = last.pre_grid
        /\ _max = last.pre_max

\* C8 amended: slam rejects such a vector with ValueError before it changes
\* anything; any_can_move does not reject it: it returns a boolean (true for
\* the zero vector, every cell being its own neighbour) and changes nothing.
C8_SlamRejectsAnyCanMoveAnswers ==
    /\ (last.op = "slam" /\ last.direction \in BadVectors) =>
           /\ last.outcome = "ValueError"
           /\ _grid = last.pre_grid
           /\ _max = last.pre_max
    /\ (last.op = "any_can_move" /\ last.direction \in BadVectors) =>
           /\ last.outcome = "ok"
           /\ last.direction = <<0, 0>> => last.ret
           /\ _grid = last.pre_grid
           /\ _max = last.pre_max

C8_Witness ==
    /\ last.op = "slam"
    /\ last.direction \in BadVectors
    /\ last.outcome = "ValueError"
    /\ slammed
    /\ Cardinality(Tiles(_grid)) >= 2

\* C9: after start(), is_over() is goal_met() or no legal move; with
\* any_can_move() false a slam in each direction moves and merges nothing,
\* and with any_can_move() true some direction's slam completes and moves or
\* merges a tile.
C9_AnyCanMoveIsLegalMove ==
    started =>
        LET acm == any_can_move(_grid, DIRECTIONS)
            dirs == {UP, RIGHT, DOWN, LEFT}
        IN  /\ is_over(_grid, _max) <=> (goal_met(_max) \/ ~acm)
            /\ ~acm => \A d \in dirs : move(_grid, d).g = _grid
            /\ acm => \E d \in dirs :
                   move(_grid, d).err = "ok" /\ move(_grid, d).g # _grid

\* The same on square grids only.
SquareAnyCanMoveIsLegalMove ==
    width = height => C9_AnyCanMoveIsLegalMove

\* C10: a slam's move part keeps the total of the cell values and lowers the
\* number of tiles by the number of merges; then exactly one cell that was
\* EMPTY after the move receives the spawn value, or nothing is placed when
\* the grid is full; so the total grows by the spawn value exactly when an
\* empty cell was left.
C10_SlamAccounting ==
    ValidSlam =>
        /\ Total(last.moved) = Total(last.pre_grid)
        /\ Cardinality(Tiles(last.moved))
               = Cardinality(Tiles(last.pre_grid)) - last.merges
        /\ IF Holding(last.moved, EMPTY) = {}
           THEN _grid = last.moved
           ELSE /\ \E c \in Holding(last.moved, EMPTY) :
                       _grid = [last.moved EXCEPT ![c[1]][c[2]] = initial_value]
                /\ Total(_grid) = Total(last.pre_grid) + initial_value

\* The same for the slams that complete.
CompletedSlamAccounting ==
    last.outcome = "ok" => C10_SlamAccounting

====
